---- MODULE Spec2Model ----
(***************************************************************************)
(* Model of go-queryparams (src/queryparams.go): Marshal turns a struct    *)
(* into url.Values, Unmarshal populates a struct from url.Values.          *)
(*                                                                         *)
(* A Go string is a sequence of one-character strings, so that             *)
(* strings.ToLower, strings.Split, slicing and the strconv conversions are *)
(* computed character by character.                                        *)
(***************************************************************************)
EXTENDS Integers, Sequences, FiniteSets, TLC

\* ------------------------------------------------------------------------
\* Bounds of the model
\* ------------------------------------------------------------------------
\* longest list held by a slice field of the source record
MaxListLen == 2

\* largest seconds component of a time.Time field
MaxSec == 1

\* ------------------------------------------------------------------------
\* Strings
\* ------------------------------------------------------------------------
Upper == <<"A", "B", "D", "I", "N">>
Lower == <<"a", "b", "d", "i", "n">>

\* strings.ToLower on one character
ToLowerChar(c) ==
    IF \E k \in DOMAIN Upper : Upper[k] = c
        THEN Lower[CHOOSE k \in DOMAIN Upper : Upper[k] = c]
        ELSE c

\* strings.ToLower
ToLower(s) == [k \in DOMAIN s |-> ToLowerChar(s[k])]

IsUpperChar(c) == \E k \in DOMAIN Upper : Upper[k] = c

\* index of the first occurrence of c in s, 0 when there is none
IndexOf(s, c) ==
    IF \E k \in DOMAIN s : s[k] = c
        THEN CHOOSE k \in DOMAIN s : s[k] = c /\ \A j \in 1..(k - 1) : s[j] # c
        ELSE 0

\* strings.Split(s, sep) for a one-character separator
RECURSIVE Split(_, _)
Split(s, sep) ==
    LET k == IndexOf(s, sep) IN
    IF k = 0 THEN <<s>>
    ELSE <<SubSeq(s, 1, k - 1)>> \o Split(SubSeq(s, k + 1, Len(s)), sep)

\* ------------------------------------------------------------------------
\* strconv
\* ------------------------------------------------------------------------
DigitChars == <<"0", "1", "2", "3", "4", "5", "6", "7", "8", "9">>

IsDigit(c) == \E k \in DOMAIN DigitChars : DigitChars[k] = c

DigitVal(c) == (CHOOSE k \in DOMAIN DigitChars : DigitChars[k] = c) - 1

RECURSIVE Pow2(_)
Pow2(n) == IF n = 0 THEN 1 ELSE 2 * Pow2(n - 1)

\* strconv.FormatUint(u, 10)
RECURSIVE FormatUint(_)
FormatUint(u) ==
    IF u < 10 THEN <<DigitChars[u + 1]>>
    ELSE FormatUint(u \div 10) \o <<DigitChars[(u % 10) + 1]>>

\* strconv.FormatInt(i, 10)
FormatInt(i) == IF i < 0 THEN <<"-">> \o FormatUint(0 - i) ELSE FormatUint(i)

\* strconv.FormatBool
FormatBool(b) == IF b THEN <<"t", "r", "u", "e">> ELSE <<"f", "a", "l", "s", "e">>

\* value of a string of decimal digits
RECURSIVE DigitsVal(_)
DigitsVal(s) ==
    IF s = <<>> THEN 0
    ELSE 10 * DigitsVal(SubSeq(s, 1, Len(s) - 1)) + DigitVal(s[Len(s)])

AllDigits(s) == s # <<>> /\ \A k \in DOMAIN s : IsDigit(s[k])

\* results of a conversion: the value and the error ("" when nil)
Ok(v) == [ok |-> TRUE, val |-> v, err |-> ""]
Fail(e) == [ok |-> FALSE, val |-> 0, err |-> e]

ErrSyntax == "strconv: invalid syntax"
ErrRange == "strconv: value out of range"

\* strconv.ParseUint(s, 10, bits): no sign is accepted
ParseUint(s, bits) ==
    IF ~AllDigits(s) THEN Fail(ErrSyntax)
    ELSE IF DigitsVal(s) > Pow2(bits) - 1 THEN Fail(ErrRange)
    ELSE Ok(DigitsVal(s))

\* strconv.ParseInt(s, 10, bits): an optional sign, then digits
ParseInt(s, bits) ==
    LET neg == s # <<>> /\ s[1] = "-"
        signed == s # <<>> /\ s[1] \in {"+", "-"}
        digits == IF signed THEN Tail(s) ELSE s
    IN
    IF ~AllDigits(digits) THEN Fail(ErrSyntax)
    ELSE IF ~neg /\ DigitsVal(digits) > Pow2(bits - 1) - 1 THEN Fail(ErrRange)
    ELSE IF neg /\ DigitsVal(digits) > Pow2(bits - 1) THEN Fail(ErrRange)
    ELSE Ok(IF neg THEN 0 - DigitsVal(digits) ELSE DigitsVal(digits))

\* strconv.ParseBool
ParseBool(s) ==
    IF s \in {<<"1">>, <<"t">>, <<"T">>, <<"t", "r", "u", "e">>,
              <<"T", "R", "U", "E">>, <<"T", "r", "u", "e">>} THEN Ok(TRUE)
    ELSE IF s \in {<<"0">>, <<"f">>, <<"F">>, <<"f", "a", "l", "s", "e">>,
                   <<"F", "A", "L", "S", "E">>, <<"F", "a", "l", "s", "e">>} THEN Ok(FALSE)
    ELSE Fail(ErrSyntax)

\* strconv.FormatFloat(f, 'f', -1, 64). A float is held as its number of
\* hundredths: the shortest decimal that round-trips a float64 holding a
\* decimal of up to two fractional digits is that decimal itself.
FormatFloat(h) ==
    LET a == IF h < 0 THEN 0 - h ELSE h
        whole == FormatUint(a \div 100)
        frac == a % 100
        tail == IF frac = 0 THEN <<>>
                ELSE IF frac % 10 = 0 THEN <<".", DigitChars[(frac \div 10) + 1]>>
                ELSE <<".", DigitChars[(frac \div 10) + 1], DigitChars[(frac % 10) + 1]>>
    IN (IF h < 0 THEN <<"-">> ELSE <<>>) \o whole \o tail

\* strconv.ParseFloat(s, 64) on decimal text of up to two fractional digits
\* (no exponent, no hexadecimal, no "inf"/"nan": the strings of the model
\* carry none of them)
ParseFloat(s) ==
    LET neg == s # <<>> /\ s[1] = "-"
        signed == s # <<>> /\ s[1] \in {"+", "-"}
        body == IF signed THEN Tail(s) ELSE s
        dot == IndexOf(body, ".")
        whole == IF dot = 0 THEN body ELSE SubSeq(body, 1, dot - 1)
        frac == IF dot = 0 THEN <<>> ELSE SubSeq(body, dot + 1, Len(body))
        wellFormed == /\ \A k \in DOMAIN whole : IsDigit(whole[k])
                      /\ \A k \in DOMAIN frac : IsDigit(frac[k])
                      /\ Len(whole) + Len(frac) > 0
                      /\ Len(frac) <= 2
        fracVal == IF Len(frac) = 1 THEN 10 * DigitsVal(frac) ELSE DigitsVal(frac)
        mag == 100 * DigitsVal(whole) + fracVal
    IN
    IF ~wellFormed THEN Fail(ErrSyntax)
    ELSE Ok(IF neg THEN 0 - mag ELSE mag)

\* ------------------------------------------------------------------------
\* time.Time: seconds after 0001-01-01T00:00:00Z and tenths of a second
\* ------------------------------------------------------------------------
TimePrefix ==
    <<"0", "0", "0", "1", "-", "0", "1", "-", "0", "1", "T",
      "0", "0", ":", "0", "0", ":", "0">>

ZeroTime == [sec |-> 0, nsec |-> 0]

\* t.Format(time.RFC3339): the layout has no fractional seconds
TimeFormat(t) == TimePrefix \o <<DigitChars[t.sec + 1], "Z">>

ErrTime == "parsing time: cannot parse"

\* time.Parse(time.RFC3339, s) on UTC texts of the first ten seconds; a
\* fractional second is accepted although the layout has none
TimeParse(s) ==
    LET n == Len(TimePrefix) IN
    IF /\ Len(s) = n + 2
       /\ SubSeq(s, 1, n) = TimePrefix
       /\ IsDigit(s[n + 1])
       /\ s[n + 2] = "Z"
        THEN Ok([sec |-> DigitVal(s[n + 1]), nsec |-> 0])
    ELSE IF /\ Len(s) = n + 4
            /\ SubSeq(s, 1, n) = TimePrefix
            /\ IsDigit(s[n + 1])
            /\ s[n + 2] = "."
            /\ IsDigit(s[n + 3])
            /\ s[n + 4] = "Z"
        THEN Ok([sec |-> DigitVal(s[n + 1]), nsec |-> DigitVal(s[n + 3])])
    ELSE Fail(ErrTime)

\* ------------------------------------------------------------------------
\* Field types: reflect.Kind, bit width, element type and which of the two
\* interfaces the type implements ("value" or "pointer" receiver)
\* ------------------------------------------------------------------------
T(kind, bits, elem, m, u) ==
    [kind |-> kind, bits |-> bits, elem |-> elem, marshaler |-> m, unmarshaler |-> u]

TypeNames ==
    {"string", "int8", "uint8", "float64", "bool", "time.Time", "[]int8",
     "[]string", "map", "ID", "PID", "CSV", "[]ID"}

TypeOf(n) ==
    CASE n = "string" -> T("string", 0, "", "none", "none")
      [] n = "int8" -> T("int", 8, "", "none", "none")
      [] n = "uint8" -> T("uint", 8, "", "none", "none")
      [] n = "float64" -> T("float", 64, "", "none", "none")
      [] n = "bool" -> T("bool", 0, "", "none", "none")
      [] n = "time.Time" -> T("struct", 0, "", "none", "none")
      [] n = "[]int8" -> T("slice", 0, "int8", "none", "none")
      [] n = "[]string" -> T("slice", 0, "string", "none", "none")
      [] n = "map" -> T("map", 0, "", "none", "none")
      \* type ID int8, func (ID) MarshalQueryParam, func (*ID) UnmarshalQueryParam
      [] n = "ID" -> T("int", 8, "", "value", "pointer")
      \* type PID int8, func (*PID) MarshalQueryParam
      [] n = "PID" -> T("int", 8, "", "pointer", "none")
      \* type CSV []int8, func (CSV) MarshalQueryParam
      [] n = "CSV" -> T("slice", 0, "int8", "value", "none")
      [] n = "[]ID" -> T("slice", 0, "ID", "none", "none")

Kind(n) == TypeOf(n).kind

NilSlice == [isNil |-> TRUE, elems |-> <<>>]
MkSlice(es) == [isNil |-> FALSE, elems |-> es]

\* the zero value of a type
ZeroOf(n) ==
    CASE Kind(n) = "string" -> <<>>
      [] Kind(n) \in {"int", "uint", "float"} -> 0
      [] Kind(n) = "bool" -> FALSE
      [] Kind(n) = "struct" -> ZeroTime
      [] Kind(n) = "slice" -> NilSlice
      [] Kind(n) = "map" -> [isNil |-> TRUE]

\* a bug: no value counts as zero, so omitzero never omits
IsZeroNever(n, v) == FALSE

\* reflect.Value.IsZero
IsZero(n, v) ==
    CASE Kind(n) \in {"slice", "map"} -> v.isNil
      [] OTHER -> v = ZeroOf(n)

\* ------------------------------------------------------------------------
\* User types implementing Marshaler / Unmarshaler
\* ------------------------------------------------------------------------
ErrNegativeID == "ID: negative"
ErrMalformedID == "ID: malformed"

RECURSIVE Join(_)
Join(es) ==
    IF es = <<>> THEN <<>>
    ELSE IF Len(es) = 1 THEN FormatInt(es[1])
    ELSE FormatInt(es[1]) \o <<",">> \o Join(Tail(es))

\* the MarshalQueryParam methods of ID, PID and CSV: (string, error)
MarshalQueryParam(n, v) ==
    CASE n = "ID" -> IF v < 0 THEN [s |-> <<>>, err |-> ErrNegativeID]
                     ELSE [s |-> <<"#">> \o FormatInt(v), err |-> ""]
      [] n = "PID" -> [s |-> <<"p">> \o FormatInt(v), err |-> ""]
      [] n = "CSV" -> [s |-> Join(v.elems), err |-> ""]

\* the UnmarshalQueryParam method of *ID
UnmarshalQueryParam(n, s) ==
    IF s # <<>> /\ s[1] = "#" /\ ParseInt(Tail(s), 8).ok
        THEN Ok(ParseInt(Tail(s), 8).val)
        ELSE Fail(ErrMalformedID)

\* ------------------------------------------------------------------------
\* parseTag, toString, setFromString
\* ------------------------------------------------------------------------
OmitZeroOption == <<"o", "m", "i", "t", "z", "e", "r", "o">>

parseTag(tag) ==
    IF tag = <<>> THEN [name |-> <<>>, omitzero |-> FALSE]
    ELSE LET parts == Split(tag, ",") IN
         [name |-> parts[1],
          omitzero |-> \E k \in 2..Len(parts) : parts[k] = OmitZeroOption]

\* a bug: the tag name "-" is taken for a key like any other
SkipNever(name) == FALSE

\* name == "-": the field takes part in neither direction
Skip(name) == name = <<"-">>

\* implementsMarshaler: the value as-is, then *T when v is addressable
implementsMarshaler(n, canAddr) ==
    \/ TypeOf(n).marshaler = "value"
    \/ TypeOf(n).marshaler = "pointer" /\ canAddr

\* implementsUnmarshaler: the value as-is, then *T when v is addressable
implementsUnmarshaler(n, canAddr) ==
    \/ TypeOf(n).unmarshaler = "value"
    \/ TypeOf(n).unmarshaler = "pointer" /\ canAddr

ErrUnsupportedType(n) == [msg |-> "unsupported type", kind |-> Kind(n)]
ErrUnsupportedKind(n) == [msg |-> "unsupported kind", kind |-> Kind(n)]
ErrOf(e) == [msg |-> e, kind |-> ""]
NoErr == ErrOf("")

\* toString(v): (string, error)
toString(n, v, canAddr) ==
    IF implementsMarshaler(n, canAddr)
        THEN [s |-> MarshalQueryParam(n, v).s, err |-> ErrOf(MarshalQueryParam(n, v).err)]
    ELSE CASE Kind(n) = "string" -> [s |-> v, err |-> NoErr]
           [] Kind(n) = "int" -> [s |-> FormatInt(v), err |-> NoErr]
           [] Kind(n) = "uint" -> [s |-> FormatUint(v), err |-> NoErr]
           [] Kind(n) = "float" -> [s |-> FormatFloat(v), err |-> NoErr]
           [] Kind(n) = "bool" -> [s |-> FormatBool(v), err |-> NoErr]
           [] OTHER -> IF n = "time.Time"
                           THEN [s |-> TimeFormat(v), err |-> NoErr]
                           ELSE [s |-> <<>>, err |-> ErrUnsupportedType(n)]

Conv(r) == [ok |-> r.ok, val |-> r.val, err |-> ErrOf(r.err)]

\* setFromString(v, s): the value v holds afterwards, and the error
setFromString(n, s, canAddr) ==
    IF implementsUnmarshaler(n, canAddr) THEN Conv(UnmarshalQueryParam(n, s))
    ELSE CASE Kind(n) = "string" -> Conv(Ok(s))
           [] Kind(n) = "int" -> Conv(ParseInt(s, TypeOf(n).bits))
           [] Kind(n) = "uint" -> Conv(ParseUint(s, TypeOf(n).bits))
           [] Kind(n) = "float" -> Conv(ParseFloat(s))
           [] Kind(n) = "bool" -> Conv(ParseBool(s))
           [] OTHER -> IF n = "time.Time"
                           THEN Conv(TimeParse(s))
                           ELSE [ok |-> FALSE, val |-> 0, err |-> ErrUnsupportedKind(n)]

\* ------------------------------------------------------------------------
\* url.Values: a function from keys to lists of strings
\* ------------------------------------------------------------------------
EmptyValues == [k \in {} |-> <<>>]

Has(uv, key) == key \in DOMAIN uv

\* a bug: a scalar field appends to the values of its key, as Add does
SetAppends(uv, key, s) ==
    [k \in DOMAIN uv \cup {key} |->
        IF k = key THEN (IF Has(uv, key) THEN uv[key] ELSE <<>>) \o <<s>> ELSE uv[k]]

\* url.Values.Set
Set(uv, key, s) == [k \in DOMAIN uv \cup {key} |-> IF k = key THEN <<s>> ELSE uv[k]]

\* a bug: each element of a list replaces the values of its key, as Set does
AddReplaces(uv, key, s) == [k \in DOMAIN uv \cup {key} |-> IF k = key THEN <<s>> ELSE uv[k]]

\* url.Values.Add
Add(uv, key, s) ==
    [k \in DOMAIN uv \cup {key} |->
        IF k = key THEN (IF Has(uv, key) THEN uv[key] ELSE <<>>) \o <<s>> ELSE uv[k]]

\* ------------------------------------------------------------------------
\* Marshal
\* ------------------------------------------------------------------------
\* a struct field is exported when its name starts with an upper-case letter
Exported(sf) == IsUpperChar(sf.Name[1])

\* the key Marshal resolves for a field
MarshalName(sf) ==
    IF parseTag(sf.Tag).name = <<>> THEN ToLower(sf.Name) ELSE parseTag(sf.Tag).name

\* a bug: an empty map goes back with the error
MarshalAbortEmpty(uv, err) == [uv |-> EmptyValues, err |-> err]

\* return uv, err: the map built so far goes back with the error
MarshalAbort(uv, err) == [uv |-> uv, err |-> err]

\* the loop over the elements of a slice field, from element j on
RECURSIVE MarshalElems(_, _, _, _, _)
MarshalElems(elem, es, j, name, uv) ==
    IF j > Len(es) THEN [uv |-> uv, err |-> NoErr]
    ELSE LET r == toString(elem, es[j], TRUE) IN
         IF r.err # NoErr THEN MarshalAbort(uv, r.err)
         ELSE MarshalElems(elem, es, j + 1, name, Add(uv, name, r.s))

\* the loop over the fields of the struct, from field i on
RECURSIVE MarshalFields(_, _, _, _, _)
MarshalFields(t, v, canAddr, i, uv) ==
    IF i > Len(t) THEN [uv |-> uv, err |-> NoErr]
    ELSE LET sf == t[i]
             name == MarshalName(sf)
             omitzero == parseTag(sf.Tag).omitzero
         IN
         IF Skip(parseTag(sf.Tag).name) THEN MarshalFields(t, v, canAddr, i + 1, uv)
         ELSE IF ~Exported(sf) THEN MarshalFields(t, v, canAddr, i + 1, uv)
         ELSE IF omitzero /\ IsZero(sf.Type, v[i]) THEN MarshalFields(t, v, canAddr, i + 1, uv)
         ELSE IF Kind(sf.Type) = "slice"
             THEN LET r == MarshalElems(TypeOf(sf.Type).elem, v[i].elems, 1, name, uv) IN
                  IF r.err # NoErr THEN r
                  ELSE MarshalFields(t, v, canAddr, i + 1, r.uv)
         ELSE LET r == toString(sf.Type, v[i], canAddr) IN
              IF r.err # NoErr THEN MarshalAbort(uv, r.err)
              ELSE MarshalFields(t, v, canAddr, i + 1, Set(uv, name, r.s))

ErrExpectedStruct == ErrOf("expected struct but got")

\* the shapes of the argument of Marshal
StructShapes == {"struct", "*struct"}
OtherShapes == {"nil", "nil *struct", "int", "[]int", "map", "*int", "**struct"}

\* reflect.ValueOf(src).Kind()
ShapeKind(shape) ==
    CASE shape = "nil" -> "invalid"
      [] shape \in {"*struct", "nil *struct", "*int", "**struct"} -> "pointer"
      [] shape = "[]int" -> "slice"
      [] OTHER -> shape

\* reflect.Value.Elem().Kind() of a pointer
ElemKind(shape) ==
    CASE shape = "*struct" -> "struct"
      [] shape = "nil *struct" -> "invalid"
      [] shape = "*int" -> "int"
      [] shape = "**struct" -> "pointer"

\* Marshal(src): the map, whether it is the nil map, the error, and whether
\* the call panicked instead of returning (reflect.Value.Type on the zero
\* Value panics)
Marshal(shape, t, v) ==
    LET kind == IF ShapeKind(shape) = "pointer" THEN ElemKind(shape) ELSE ShapeKind(shape) IN
    IF kind # "struct"
        THEN IF kind = "invalid"
                 THEN [uv |-> EmptyValues, isNil |-> TRUE, err |-> NoErr, panic |-> TRUE]
                 ELSE [uv |-> EmptyValues, isNil |-> TRUE, err |-> ErrExpectedStruct,
                       panic |-> FALSE]
    ELSE LET r == MarshalFields(t, v, shape = "*struct", 1, EmptyValues) IN
         [uv |-> r.uv, isNil |-> FALSE, err |-> r.err, panic |-> FALSE]

\* ------------------------------------------------------------------------
\* Unmarshal
\* ------------------------------------------------------------------------
\* the key Unmarshal resolves for a field
UnmarshalName(sf) ==
    IF parseTag(sf.Tag).name = <<>>
        THEN ToLower(SubSeq(sf.Name, 1, 1)) \o SubSeq(sf.Name, 2, Len(sf.Name))
        ELSE parseTag(sf.Tag).name

\* a bug: the error goes back without the key of the field
FieldErrUnnamed(name, err) == [field |-> <<>>, cause |-> err]

\* fmt.Errorf("field %q: %w", name, err)
FieldErr(name, err) == [field |-> name, cause |-> err]
NoFieldErr == FieldErr(<<>>, NoErr)

\* a bug: the key is matched without regard to case
LookupAnyCase(values, name) ==
    LET match == {k \in DOMAIN values : ToLower(k) = ToLower(name)} IN
    [strs |-> IF match # {} THEN values[CHOOSE k \in match : TRUE] ELSE <<>>,
     ok |-> match # {}]

\* strs, ok := values[name]: a missing key yields the nil list
Lookup(values, name) ==
    [strs |-> IF Has(values, name) THEN values[name] ELSE <<>>, ok |-> Has(values, name)]

\* the loop over the strings of a slice field, from string j on
RECURSIVE UnmarshalElems(_, _, _, _)
UnmarshalElems(elem, strs, j, newSlice) ==
    IF j > Len(strs) THEN [ok |-> TRUE, val |-> MkSlice(newSlice), err |-> NoErr]
    ELSE LET r == setFromString(elem, strs[j], TRUE) IN
         IF ~r.ok THEN [ok |-> FALSE, val |-> MkSlice(newSlice), err |-> r.err]
         ELSE UnmarshalElems(elem, strs, j + 1, Append(newSlice, r.val))

\* the loop over the fields of the struct, from field i on
RECURSIVE UnmarshalFields(_, _, _, _)
UnmarshalFields(values, t, out, i) ==
    IF i > Len(t) THEN [out |-> out, err |-> NoFieldErr]
    ELSE LET sf == t[i]
             name == UnmarshalName(sf)
             strs == Lookup(values, name).strs
             ok == Lookup(values, name).ok
         IN
         IF Skip(parseTag(sf.Tag).name) THEN UnmarshalFields(values, t, out, i + 1)
         ELSE IF ~ok \/ Len(strs) = 0
             THEN UnmarshalFields(values, t, out, i + 1)
         ELSE IF ~Exported(sf) THEN UnmarshalFields(values, t, out, i + 1)
         ELSE IF Kind(sf.Type) = "slice"
             THEN LET r == UnmarshalElems(TypeOf(sf.Type).elem, strs, 1, <<>>) IN
                  IF ~r.ok THEN [out |-> out, err |-> FieldErr(name, r.err)]
                  ELSE UnmarshalFields(values, t, [out EXCEPT ![i] = r.val], i + 1)
         ELSE LET r == setFromString(sf.Type, strs[1], TRUE) IN
              IF ~r.ok THEN [out |-> out, err |-> FieldErr(name, r.err)]
              ELSE UnmarshalFields(values, t, [out EXCEPT ![i] = r.val], i + 1)

\* Unmarshal(values, out) for out a non-nil pointer to a struct of type t
\* holding the record `out`: the record afterwards, and the error
Unmarshal(values, t, out) == UnmarshalFields(values, t, out, 1)

\* ------------------------------------------------------------------------
\* The struct types, records and query maps of the model
\* ------------------------------------------------------------------------
F(name, tag, type) == [Name |-> name, Tag |-> tag, Type |-> type]

NoTag == <<>>
TagN == <<"n">>
TagDash == <<"-">>
TagOmit == <<",">> \o OmitZeroOption
TagNOmit == <<"n", ",">> \o OmitZeroOption
TagDashOmit == <<"-", ",">> \o OmitZeroOption
\* an option parseTag does not know, before the one it knows
TagNOther == <<"n", ",", "x", ",">> \o OmitZeroOption
\* an option that only starts like omitzero
TagNLike == <<"n", ",", "o", "m", "i", "t">>

TagPool == {NoTag, TagN, TagDash, TagOmit, TagNOmit, TagDashOmit, TagNOther, TagNLike}

\* N and ID are exported, n is not
NamePool == {<<"N">>, <<"I", "D">>, <<"n">>}

\* structs of one field: every name and tag on a scalar and on a list, and
\* every type untagged and with omitzero
OneField ==
    {<<F(nm, tg, ty)>> : nm \in NamePool, tg \in TagPool, ty \in {"int8", "[]int8"}}
    \cup {<<F(<<"N">>, tg, ty)>> : tg \in {NoTag, TagOmit}, ty \in TypeNames}

\* structs of two fields that resolve to the same key, in both orders
Colliding ==
    {<<F(<<"A">>, ta, tya), F(<<"B">>, tb, tyb)>> :
        ta \in {TagN, TagNOmit}, tb \in {TagN}, tya \in {"int8", "[]int8"},
        tyb \in {"int8", "[]int8"}}
    \cup {<<F(<<"N">>, NoTag, "int8"), F(<<"B">>, TagN, "[]int8")>>,
          <<F(<<"A">>, TagN, "[]int8"), F(<<"B">>, TagN, "int8"), F(<<"D">>, TagN, "[]int8")>>}

\* structs of three fields whose middle field is the one of interest
Middle ==
    {<<F(<<"A">>, NoTag, "int8"), F(<<"B">>, tg, ty), F(<<"D">>, NoTag, "int8")>> :
        tg \in {NoTag, TagDash}, ty \in {"int8", "[]int8", "map", "ID", "[]ID"}}

\* struct { Name string `query:"n"`; Count int8 `query:"d,omitzero"` }
Scenario == {<<F(<<"N">>, TagN, "string"), F(<<"D">>, <<"d", ",">> \o OmitZeroOption, "int8")>>}

TypePool == OneField \cup Colliding \cup Middle \cup Scenario

RECURSIVE SeqsUpTo(_, _)
SeqsUpTo(S, n) ==
    IF n = 0 THEN {<<>>}
    ELSE SeqsUpTo(S, n - 1)
         \cup {Append(q, x) : q \in {r \in SeqsUpTo(S, n - 1) : Len(r) = n - 1}, x \in S}

Slices(S) == {NilSlice} \cup {MkSlice(es) : es \in SeqsUpTo(S, MaxListLen)}

\* the values a field of the source record takes
ValuesOf(n) ==
    CASE n = "string" -> {<<>>, <<"a", "b">>}
      [] n \in {"int8", "PID"} -> {0, 5, -1}
      [] n = "ID" -> {0, 5, -1}
      [] n = "uint8" -> {0, 255}
      [] n = "float64" -> {0, 150, -25}
      [] n = "bool" -> {FALSE, TRUE}
      [] n = "time.Time" -> [sec : 0..MaxSec, nsec : {0, 5}]
      [] n \in {"[]int8", "CSV"} -> Slices({3, 1})
      [] n = "[]string" -> Slices({<<>>, <<"a", "b">>})
      [] n = "[]ID" -> Slices({5, -1})
      [] n = "map" -> {[isNil |-> TRUE], [isNil |-> FALSE]}

\* the records of the first i fields of a struct type
RECURSIVE RecordsUpTo(_, _)
RecordsUpTo(t, i) ==
    IF i = 0 THEN {<<>>}
    ELSE {Append(r, x) : r \in RecordsUpTo(t, i - 1), x \in ValuesOf(t[i].Type)}

\* the records of a struct type
Records(t) == RecordsUpTo(t, Len(t))

ZeroRecord(t) == [i \in DOMAIN t |-> ZeroOf(t[i].Type)]

\* a value other than the zero value, which a destination holds before a call
PresetOf(n) ==
    CASE n = "string" -> <<"a", "b">>
      [] n \in {"int8", "PID", "ID"} -> 5
      [] n = "uint8" -> 255
      [] n = "float64" -> 150
      [] n = "bool" -> TRUE
      [] n = "time.Time" -> [sec |-> MaxSec, nsec |-> 5]
      [] n \in {"[]int8", "CSV"} -> MkSlice(<<3, 1>>)
      [] n = "[]string" -> MkSlice(<<<<"a", "b">>>>)
      [] n = "[]ID" -> MkSlice(<<5>>)
      [] n = "map" -> [isNil |-> FALSE]

PresetRecord(t) == [i \in DOMAIN t |-> PresetOf(t[i].Type)]

\* the value lists of the query maps
ListPool ==
    {<<>>, <<<<"5">>>>, <<<<"3">>, <<"1">>, <<"2">>>>, <<<<"a", "b", "c">>>>,
     <<<<"1">>, <<"a", "b", "c">>>>, <<<<"t", "r", "u", "e">>>>, <<<<"+", "5">>>>,
     <<<<"-", "1">>>>, <<<<"1", "2", "8">>>>, <<<<"2", "5", "6">>>>,
     <<<<"0", ".", "5">>>>, <<<<"1", ".", "2", "5">>, <<"2">>>>, <<<<>>>>,
     <<TimeFormat([sec |-> 1, nsec |-> 0])>>,
     <<TimePrefix \o <<"1", ".", "5", "Z">>>>,
     <<<<"#", "5">>>>, <<<<"#", "5">>, <<"5">>>>}

KeyA == <<"a">>
KeyB == <<"b">>
KeyD == <<"d">>
KeyN == <<"n">>
KeyUnknown == <<"z", "z", "z">>

QueryPool ==
    {EmptyValues}
    \cup {KeyN :> l : l \in ListPool}
    \cup {k :> <<<<"5">>>> : k \in {<<"i", "D">>, <<"i", "d">>, <<"I", "D">>, <<"N">>,
                                    <<"-">>, KeyUnknown}}
    \cup {(KeyN :> <<<<"5">>>>) @@ (KeyUnknown :> <<<<"1">>>>)}
    \cup {(KeyA :> <<<<"7">>>>) @@ (KeyB :> l) @@ (KeyD :> <<<<"9">>>>) :
            l \in {<<<<"a", "b", "c">>>>, <<<<"1">>, <<"a", "b", "c">>>>,
                   <<<<"3">>, <<"1">>>>, <<<<"#", "5">>>>, <<>>}}
    \cup {(KeyA :> <<<<"7">>>>) @@ (KeyD :> <<<<"a", "b", "c">>>>),
          (KeyA :> <<<<"a", "b", "c">>>>) @@ (KeyB :> <<<<"1">>>>)}

\* ------------------------------------------------------------------------
\* State
\* ------------------------------------------------------------------------
VARIABLES
    typ,    \* the struct type of the records
    shape,  \* the shape of the argument the caller passes to Marshal
    src,    \* the record the caller passes to Marshal
    query,  \* the url.Values the caller holds to decode
    dst,    \* the record the pointer passed to Unmarshal refers to
    mres,   \* the last call of Marshal: what it returned
    ures    \* the last call of Unmarshal: its arguments and its error

vars == <<typ, shape, src, query, dst, mres, ures>>

NoMarshal == [called |-> FALSE, uv |-> EmptyValues, isNil |-> TRUE, err |-> NoErr,
              panic |-> FALSE]
NoUnmarshal == [called |-> FALSE, values |-> EmptyValues, before |-> <<>>,
                err |-> NoFieldErr]

\* The caller holds either a record to encode (and a zero destination), or
\* a query to decode into a destination that is zero or already filled, or
\* something that is not a struct at all.
Init ==
    /\ mres = NoMarshal
    /\ ures = NoUnmarshal
    /\ \/ /\ typ \in TypePool
          /\ shape \in StructShapes
          /\ src \in Records(typ)
          /\ query = EmptyValues
          /\ dst = ZeroRecord(typ)
       \/ /\ typ \in TypePool
          /\ shape = "*struct"
          /\ src \in {ZeroRecord(typ), PresetRecord(typ)}
          /\ query \in QueryPool
          /\ dst \in {ZeroRecord(typ), PresetRecord(typ)}
       \/ /\ typ = <<>>
          /\ shape \in OtherShapes
          /\ src = <<>>
          /\ query = EmptyValues
          /\ dst = <<>>

\* vals, err := Marshal(src)
MarshalCall ==
    /\ ~mres.panic
    /\ LET r == Marshal(shape, typ, src) IN
       mres' = [called |-> TRUE, uv |-> r.uv, isNil |-> r.isNil, err |-> r.err,
                panic |-> r.panic]
    /\ UNCHANGED <<typ, shape, src, query, dst, ures>>

\* err := Unmarshal(values, &dst)
UnmarshalOf(values) ==
    /\ ~mres.panic
    /\ LET r == Unmarshal(values, typ, dst) IN
       /\ dst' = r.out
       /\ ures' = [called |-> TRUE, values |-> values, before |-> dst, err |-> r.err]
    /\ UNCHANGED <<typ, shape, src, query, mres>>

\* the caller decodes the query it holds
UnmarshalQuery == UnmarshalOf(query)

\* the caller decodes what Marshal returned without an error
UnmarshalEncoded ==
    /\ mres.called
    /\ ~mres.isNil
    /\ mres.err = NoErr
    /\ UnmarshalOf(mres.uv)

Next == MarshalCall \/ UnmarshalQuery \/ UnmarshalEncoded

Spec == Init /\ [][Next]_vars

\* ------------------------------------------------------------------------
\* Properties
\* ------------------------------------------------------------------------
Fields == DOMAIN typ

\* Marshal was called on a struct or a pointer to one
Marshalled == mres.called /\ shape \in StructShapes

TagName(i) == parseTag(typ[i].Tag).name
OmitZero(i) == parseTag(typ[i].Tag).omitzero
Dashed(i) == TagName(i) = <<"-">>
IsList(i) == Kind(typ[i].Type) = "slice"

\* the fields Marshal encodes
Encoded(i) ==
    /\ ~Dashed(i)
    /\ Exported(typ[i])
    /\ ~(OmitZero(i) /\ IsZero(typ[i].Type, src[i]))

\* the struct type and a record of it, restricted to the fields of I
Indices(I) == SelectSeq([i \in 1..Len(typ) |-> i], LAMBDA i : i \in I)
TypeOn(I) == [k \in 1..Len(Indices(I)) |-> typ[Indices(I)[k]]]
RecordOn(r, I) == [k \in 1..Len(Indices(I)) |-> r[Indices(I)[k]]]

\* C3: a field whose tag name is "-" takes part in neither direction:
\* Marshal returns what it returns for the struct without the field, whatever
\* the field holds, and Unmarshal leaves the field as it was, whatever the map
\* holds.
DashFieldIgnored ==
    LET kept == {i \in Fields : ~Dashed(i)} IN
    /\ Marshalled =>
          /\ mres.uv = Marshal(shape, TypeOn(kept), RecordOn(src, kept)).uv
          /\ mres.err = Marshal(shape, TypeOn(kept), RecordOn(src, kept)).err
          /\ \A i \in Fields : Dashed(i) => ~Has(mres.uv, TagName(i))
    /\ ures.called => \A i \in Fields : Dashed(i) => dst[i] = ures.before[i]

\* a "-" field holding a value was encoded, then decoded over from a map
\* holding the key "-" or the field's default name
DashFieldWitness ==
    /\ Marshalled
    /\ ures.called
    /\ \E i \in Fields :
          /\ Dashed(i)
          /\ ~IsZero(typ[i].Type, src[i])
          /\ ~IsZero(typ[i].Type, ures.before[i])
          /\ \/ Has(ures.values, <<"-">>)
             \/ Has(ures.values, ToLower(typ[i].Name)) /\ ures.values[ToLower(typ[i].Name)] # <<>>

\* C6: for an argument that is neither a struct nor a pointer to one, Marshal
\* returns a type error and the nil map, and does not panic.
MarshalRejectsNonStruct ==
    (mres.called /\ shape \in OtherShapes) =>
        /\ ~mres.panic
        /\ mres.err = ErrExpectedStruct
        /\ mres.isNil

\* the fields Marshal can encode: exported and not tagged "-"
Participates(i) == ~Dashed(i) /\ Exported(typ[i])

\* no other such field resolves to the key of field i
KeyUnshared(i) ==
    \A j \in Fields \ {i} : Participates(j) => MarshalName(typ[j]) # MarshalName(typ[i])

\* the field holds its zero/empty value: "", 0, false, the zero time, a list
\* without elements
HoldsZero(i) ==
    \/ src[i] = ZeroOf(typ[i].Type)
    \/ IsList(i) /\ src[i].elems = <<>>

ValuesAt(uv, key) == IF Has(uv, key) THEN uv[key] ELSE <<>>

\* the string form of the value of field i: one string for a scalar, one
\* string per element for a list
StringForm(i) ==
    IF IsList(i)
        THEN [j \in 1..Len(src[i].elems) |->
                 toString(TypeOf(typ[i].Type).elem, src[i].elems[j], TRUE).s]
        ELSE <<toString(typ[i].Type, src[i], shape = "*struct").s>>

MarshalOk == Marshalled /\ mres.err = NoErr

\* C2, as claimed: an omitzero field holding its zero value has no entry under
\* its key, one holding another value has the entry of its string form, and a
\* field without omitzero always has its entry.
OmitZeroClaim ==
    MarshalOk =>
        \A i \in Fields : Participates(i) =>
            LET key == MarshalName(typ[i]) IN
            IF OmitZero(i)
                THEN IF HoldsZero(i) THEN ~Has(mres.uv, key)
                     ELSE Has(mres.uv, key) /\ mres.uv[key] = StringForm(i)
                ELSE Has(mres.uv, key)

\* C2, amended: when Marshal succeeds, for a field it can encode whose key no
\* other such field shares: with omitzero and a zero value there is no entry
\* under the key; with omitzero and another value the entry is the string
\* form; without omitzero a scalar always has its entry, and a list has an
\* entry exactly when it has elements.
OmitZeroEntries ==
    MarshalOk =>
        \A i \in Fields : (Participates(i) /\ KeyUnshared(i)) =>
            LET key == MarshalName(typ[i]) IN
            IF OmitZero(i) /\ HoldsZero(i) THEN ~Has(mres.uv, key)
            ELSE IF IsList(i) /\ src[i].elems = <<>> THEN ~Has(mres.uv, key)
            ELSE Has(mres.uv, key) /\ mres.uv[key] = StringForm(i)

\* an omitzero field at zero was left out next to a field that was encoded,
\* in a struct that also shows what a set omitzero field gives
OmitZeroWitness ==
    /\ MarshalOk
    /\ \E i, j \in Fields :
          /\ Participates(i) /\ KeyUnshared(i) /\ OmitZero(i) /\ HoldsZero(i)
          /\ ~Has(mres.uv, MarshalName(typ[i]))
          /\ Participates(j) /\ Has(mres.uv, MarshalName(typ[j]))

\* the fields Marshal encodes under a key
EncodedAt(key) == {i \in Fields : Encoded(i) /\ MarshalName(typ[i]) = key}

Max(S) == CHOOSE x \in S : \A y \in S : y <= x

\* C9, as claimed: when several encoded fields resolve to one key, the value
\* list under it is the encoding of the last-declared of them alone (stated
\* where that field has an encoding: it is not a list without elements).
LastWinsClaim ==
    MarshalOk =>
        \A i \in Fields : (Encoded(i) /\ Cardinality(EncodedAt(MarshalName(typ[i]))) >= 2) =>
            LET key == MarshalName(typ[i]) IN
            StringForm(Max(EncodedAt(key))) # <<>> =>
                ValuesAt(mres.uv, key) = StringForm(Max(EncodedAt(key)))

\* the string forms of the fields of I from field i on, in declaration order
RECURSIVE FormsFrom(_, _)
FormsFrom(I, i) ==
    IF i > Len(typ) THEN <<>>
    ELSE (IF i \in I THEN StringForm(i) ELSE <<>>) \o FormsFrom(I, i + 1)

\* C9, amended: a scalar field overwrites what earlier fields put under its
\* key and a list field appends to it, so the value list under a key is the
\* string of the last-declared encoded scalar with that key (if there is
\* one) followed by the elements of the encoded lists declared after it, in
\* declaration order.
LastScalarThenLists ==
    MarshalOk =>
        \A i \in Fields : Encoded(i) =>
            LET key == MarshalName(typ[i])
                scalars == {j \in EncodedAt(key) : ~IsList(j)}
                last == IF scalars = {} THEN 0 ELSE Max(scalars)
            IN ValuesAt(mres.uv, key) =
                   FormsFrom({j \in EncodedAt(key) : j >= last}, 1)

\* a list was encoded after a scalar of the same key
CollisionWitness ==
    /\ MarshalOk
    /\ \E i, j \in Fields :
          /\ i < j
          /\ Encoded(i) /\ Encoded(j)
          /\ MarshalName(typ[i]) = MarshalName(typ[j])
          /\ ~IsList(i)
          /\ IsList(j) /\ src[j].elems # <<>>
          /\ Len(mres.uv[MarshalName(typ[i])]) >= 2

\* the last n elements of a sequence
Suffix(q, n) == SubSeq(q, Len(q) - n + 1, Len(q))

\* what the strings of a list decode to, element by element
Parsed(elem, strs) == [j \in 1..Len(strs) |-> setFromString(elem, strs[j], TRUE).val]

\* C4: Marshal puts one value per element of a list field under its key, in
\* element order (they end the key's value list unless a later field uses the
\* key), and after a successful Unmarshal a list field whose key holds values
\* is exactly the parsed values in input order, whatever it held before.
ListOrderAndReplace ==
    /\ MarshalOk =>
          \A i \in Fields :
              (/\ IsList(i)
               /\ Encoded(i)
               /\ \A j \in Fields : (j > i /\ Participates(j)) =>
                      MarshalName(typ[j]) # MarshalName(typ[i])) =>
                  LET vals == ValuesAt(mres.uv, MarshalName(typ[i])) IN
                  /\ Len(vals) >= Len(src[i].elems)
                  /\ Suffix(vals, Len(src[i].elems)) = StringForm(i)
    /\ (ures.called /\ ures.err = NoFieldErr) =>
          \A i \in Fields :
              (/\ IsList(i)
               /\ Participates(i)
               /\ ValuesAt(ures.values, UnmarshalName(typ[i])) # <<>>) =>
                  /\ ~dst[i].isNil
                  /\ dst[i].elems = Parsed(TypeOf(typ[i].Type).elem,
                                           ures.values[UnmarshalName(typ[i])])

\* a list that is not in ascending order was encoded, and three values not in
\* ascending order were decoded into a list field that held something else
ListWitness ==
    /\ MarshalOk
    /\ ures.called /\ ures.err = NoFieldErr
    /\ \E i \in Fields :
          /\ typ[i].Type = "[]int8" /\ Participates(i)
          /\ src[i].elems = <<3, 1>>
          /\ ValuesAt(mres.uv, MarshalName(typ[i])) = <<<<"3">>, <<"1">>>>
          /\ ures.before[i].elems = <<3, 1>>
          /\ ValuesAt(ures.values, UnmarshalName(typ[i])) = <<<<"3">>, <<"1">>, <<"2">>>>
          /\ dst[i].elems = <<3, 1, 2>>

\* field i cannot be converted by Marshal, and the first element that cannot
\* (0 for a scalar)
ConvFails(i) ==
    IF IsList(i)
        THEN \E j \in DOMAIN src[i].elems :
                 toString(TypeOf(typ[i].Type).elem, src[i].elems[j], TRUE).err # NoErr
        ELSE toString(typ[i].Type, src[i], shape = "*struct").err # NoErr

FirstBadElem(i) ==
    IF IsList(i)
        THEN CHOOSE j \in DOMAIN src[i].elems :
                 /\ toString(TypeOf(typ[i].Type).elem, src[i].elems[j], TRUE).err # NoErr
                 /\ \A k \in 1..(j - 1) :
                        toString(TypeOf(typ[i].Type).elem, src[i].elems[k], TRUE).err = NoErr
        ELSE 0

Min(S) == CHOOSE x \in S : \A y \in S : x <= y

\* C7: when a conversion fails, Marshal returns the error with the map built
\* so far: the map it returns for the fields declared before the failing
\* one, followed, for a failing list, by its elements before the failing
\* element; it returns an error exactly when some encoded field fails.
PartialMapOnError ==
    Marshalled =>
        LET bad == {i \in Fields : Encoded(i) /\ ConvFails(i)} IN
        IF bad = {} THEN mres.err = NoErr
        ELSE LET f == Min(bad)
                 e == FirstBadElem(f)
                 upTo == IF IsList(f) THEN 1..f ELSE 1..(f - 1)
                 cut == IF IsList(f)
                            THEN [src EXCEPT ![f] = MkSlice(SubSeq(src[f].elems, 1, e - 1))]
                            ELSE src
                 good == Marshal(shape, TypeOn(upTo), RecordOn(cut, upTo))
             IN /\ mres.err # NoErr
                /\ ~mres.isNil
                /\ good.err = NoErr
                /\ mres.uv = good.uv

\* Marshal failed on the second element of a list after it had put an
\* earlier field and the first element into the map
PartialMapWitness ==
    /\ Marshalled
    /\ mres.err # NoErr
    /\ \E i \in Fields :
          /\ i > 1
          /\ Encoded(i) /\ IsList(i) /\ ConvFails(i) /\ FirstBadElem(i) = 2
          /\ Has(mres.uv, MarshalName(typ[i]))
          /\ Has(mres.uv, MarshalName(typ[1]))
          /\ MarshalName(typ[i]) # MarshalName(typ[1])

\* Unmarshal was handed values for field i: the field can be set and its key
\* holds at least one string
Handed(i) ==
    /\ Participates(i)
    /\ ValuesAt(ures.values, UnmarshalName(typ[i])) # <<>>

\* the error of the first string handed to field i that cannot be converted,
\* NoErr when all of them can (a scalar is handed the first string only)
RECURSIVE FirstFailure(_, _)
FirstFailure(n, strs) ==
    IF strs = <<>> THEN NoErr
    ELSE IF ~setFromString(n, strs[1], TRUE).ok THEN setFromString(n, strs[1], TRUE).err
    ELSE FirstFailure(n, Tail(strs))

ParseFailure(i) ==
    LET strs == ures.values[UnmarshalName(typ[i])] IN
    IF IsList(i) THEN FirstFailure(TypeOf(typ[i].Type).elem, strs)
    ELSE FirstFailure(typ[i].Type, <<strs[1]>>)

\* C5: Unmarshal stops at the first field whose text cannot be converted and
\* returns an error naming that field's key and wrapping the parse failure;
\* the fields before it hold what they were decoded to, the fields after it
\* are unchanged.
StopsAtFirstBadField ==
    ures.called =>
        LET bad == {i \in Fields : Handed(i) /\ ParseFailure(i) # NoErr} IN
        IF bad = {} THEN ures.err = NoFieldErr
        ELSE LET f == Min(bad)
                 before == Unmarshal(ures.values, TypeOn(1..(f - 1)),
                                     RecordOn(ures.before, 1..(f - 1)))
             IN /\ ures.err.field = UnmarshalName(typ[f])
                /\ ures.err.cause = ParseFailure(f)
                /\ before.err = NoFieldErr
                /\ \A i \in 1..(f - 1) : dst[i] = before.out[i]
                /\ \A i \in (f + 1)..Len(typ) : dst[i] = ures.before[i]

\* the second of three fields was handed "abc"; the first was decoded to a new
\* value and the third, handed a value it could take, kept its old one
BadFieldWitness ==
    /\ ures.called
    /\ Len(typ) = 3
    /\ ures.err.field = UnmarshalName(typ[2])
    /\ ures.err.cause = ErrOf(ErrSyntax)
    /\ Handed(1) /\ Handed(2) /\ Handed(3)
    /\ <<"a", "b", "c">> \in {ures.values[UnmarshalName(typ[2])][j] :
                                j \in DOMAIN ures.values[UnmarshalName(typ[2])]}
    /\ dst[1] # ures.before[1]
    /\ ParseFailure(3) = NoErr
    /\ dst[3] = ures.before[3]
    /\ dst[3] # setFromString(typ[3].Type, ures.values[UnmarshalName(typ[3])][1], TRUE).val

\* the entries of a query map under the keys of K
Restrict(values, K) == [k \in DOMAIN values \cap K |-> values[k]]

\* C8: Unmarshal is driven by the keys that match a field only: a field
\* whose key is absent or holds no value keeps its value, a map without any
\* matching key gives no error, and the keys that match no field change
\* neither the record nor the error.
UnknownKeysIgnored ==
    ures.called =>
        LET keys == {UnmarshalName(typ[i]) : i \in Fields}
            known == Unmarshal(Restrict(ures.values, keys), typ, ures.before)
        IN /\ \A i \in Fields :
                  ValuesAt(ures.values, UnmarshalName(typ[i])) = <<>> => dst[i] = ures.before[i]
           /\ (\A i \in Fields : ValuesAt(ures.values, UnmarshalName(typ[i])) = <<>>) =>
                  ures.err = NoFieldErr
           /\ known.out = dst
           /\ known.err = ures.err

\* a map holding only keys that match no field was decoded into a record
\* that held values
UnknownKeyWitness ==
    /\ ures.called
    /\ Fields # {}
    /\ DOMAIN ures.values # {}
    /\ \A i \in Fields : ~Has(ures.values, UnmarshalName(typ[i]))
    /\ \A i \in Fields : ~IsZero(typ[i].Type, ures.before[i])
    /\ dst = ures.before
    /\ ures.err = NoFieldErr

\* the kinds Marshal and Unmarshal support without the two interfaces
SupportedTypes ==
    {"string", "int8", "uint8", "float64", "bool", "time.Time", "[]int8", "[]string"}

\* the caller decoded what Marshal returned into a fresh zero record
RoundTrip ==
    /\ MarshalOk
    /\ ures.called
    /\ ures.values = mres.uv
    /\ ures.before = ZeroRecord(typ)

\* the text form of the value of field i carries all of it: no fraction of a
\* second, and not the empty list that is not nil
FullText(i) ==
    /\ typ[i].Type = "time.Time" => src[i].nsec = 0
    /\ IsList(i) => (src[i].isNil \/ src[i].elems # <<>>)

\* C1: decoding Marshal(r) into a fresh zero record succeeds and gives back r
\* field for field, except that an omitzero field at zero comes back zero
\* (stated for the records Marshal encodes in full: every field exported,
\* not tagged "-", with a key of its own and a value its text form carries).
RoundTripClaim ==
    (/\ RoundTrip
     /\ \A i \in Fields :
            /\ typ[i].Type \in SupportedTypes
            /\ Participates(i) /\ KeyUnshared(i) /\ FullText(i)) =>
        /\ ures.err = NoFieldErr
        /\ \A i \in Fields :
               dst[i] = IF OmitZero(i) /\ IsZero(typ[i].Type, src[i])
                            THEN ZeroOf(typ[i].Type)
                            ELSE src[i]

\* C10: a field whose type implements Marshaler is encoded by its own
\* MarshalQueryParam, whatever its kind: the value list under its key is the
\* one string the method returns (stated for the types that implement it on
\* the value, for the fields with a key of their own, and for lists that
\* have elements).
MarshalerFirstClaim ==
    MarshalOk =>
        \A i \in Fields :
            (/\ Encoded(i) /\ KeyUnshared(i)
             /\ TypeOf(typ[i].Type).marshaler = "value"
             /\ IsList(i) => src[i].elems # <<>>) =>
                ValuesAt(mres.uv, MarshalName(typ[i])) =
                    <<MarshalQueryParam(typ[i].Type, src[i]).s>>

====
